---- MODULE Spec2Model ----
(***************************************************************************)
(* Court-location reconciliation (main.py): key derivation, address        *)
(* normalisation, the bankruptcy-before-district matcher (compare_data)    *)
(* and the transactional update planner (update_discrepancies).            *)
(*                                                                         *)
(* A Python str is a sequence of one-character strings, so that regular    *)
(* expressions, strip, split, lower and slicing are computed character by  *)
(* character as the code computes them.  Python's None is the value None.  *)
(***************************************************************************)
EXTENDS Integers, Sequences, FiniteSets, TLC

(***************************************************************************)
(* Characters and the str methods the program uses.                        *)
(***************************************************************************)
\* Python None (a missing cell): a one-element sequence that no str equals.
None == <<"<None>">>

Letters ==
    {"A", "B", "C", "D", "E", "F", "G", "H", "I", "J", "K", "L", "M", "N", "O", "P", "Q", "R",
     "S", "T", "U", "V", "W", "X", "Y", "Z", "a", "b", "c", "d", "e", "f", "g", "h", "i", "j",
     "k", "l", "m", "n", "o", "p", "q", "r", "s", "t", "u", "v", "w", "x", "y", "z"}

Digits == {"0", "1", "2", "3", "4", "5", "6", "7", "8", "9"}

\* \w of the re module (ASCII letters, digits, underscore).
WordChars == Letters \cup Digits \cup {"_"}

IsWordChar(c) == c \in WordChars

\* \s of the re module / the characters str.strip() removes.
IsSpace(c) == c \in {" ", "\t"}

LowerMap ==
    ("A" :> "a") @@ ("B" :> "b") @@ ("C" :> "c") @@ ("D" :> "d") @@ ("E" :> "e") @@ ("F" :>
    "f") @@ ("G" :> "g") @@ ("H" :> "h") @@ ("I" :> "i") @@ ("J" :> "j") @@ ("K" :> "k") @@
    ("L" :> "l") @@ ("M" :> "m") @@ ("N" :> "n") @@ ("O" :> "o") @@ ("P" :> "p") @@ ("Q" :>
    "q") @@ ("R" :> "r") @@ ("S" :> "s") @@ ("T" :> "t") @@ ("U" :> "u") @@ ("V" :> "v") @@
    ("W" :> "w") @@ ("X" :> "x") @@ ("Y" :> "y") @@ ("Z" :> "z")

\* str.lower() on one character.
LowerChar(c) == IF c \in DOMAIN LowerMap THEN LowerMap[c] ELSE c

\* str.lower()
RECURSIVE Lower(_)
Lower(s) == IF s = <<>> THEN <<>> ELSE <<LowerChar(Head(s))>> \o Lower(Tail(s))

RECURSIVE LStrip(_)
LStrip(s) == IF s # <<>> /\ IsSpace(Head(s)) THEN LStrip(Tail(s)) ELSE s

RECURSIVE RStrip(_)
RStrip(s) ==
    IF s # <<>> /\ IsSpace(s[Len(s)]) THEN RStrip(SubSeq(s, 1, Len(s) - 1)) ELSE s

\* str.strip()
Strip(s) == RStrip(LStrip(s))

\* str.replace(old, new) for a one-character old and new.
RECURSIVE ReplaceChar(_, _, _)
ReplaceChar(s, old, new) ==
    IF s = <<>> THEN <<>>
    ELSE <<IF Head(s) = old THEN new ELSE Head(s)>> \o ReplaceChar(Tail(s), old, new)

\* s[:n]
Prefix(s, n) == SubSeq(s, 1, IF Len(s) < n THEN Len(s) ELSE n)

\* str(x) as compare_data applies it to a cell: str(None) is "None".
Str(x) == IF x = None THEN <<"N", "o", "n", "e">> ELSE x

\* Python truthiness of a cell: None and "" are falsy.
Falsy(x) == x = None \/ x = <<>>

(***************************************************************************)
(* format_address.clean_and_normalize and its regular expressions.         *)
(***************************************************************************)
\* The replacements dict of format_address, in insertion order.  Every
\* pattern is \b<pat>\b; re.sub is called with re.IGNORECASE.
replacements ==
    <<
      [pat |-> <<"S","W">>, repl |-> <<"S","o","u","t","h","w","e","s","t">>],
      [pat |-> <<"N","E">>, repl |-> <<"N","o","r","t","h","e","a","s","t">>],
      [pat |-> <<"N","W">>, repl |-> <<"N","o","r","t","h","w","e","s","t">>],
      [pat |-> <<"S","E">>, repl |-> <<"S","o","u","t","h","e","a","s","t">>],
      [pat |-> <<"N">>, repl |-> <<"N","o","r","t","h">>],
      [pat |-> <<"S">>, repl |-> <<"S","o","u","t","h">>],
      [pat |-> <<"E">>, repl |-> <<"E","a","s","t">>],
      [pat |-> <<"W">>, repl |-> <<"W","e","s","t">>],
      [pat |-> <<"S","t">>, repl |-> <<"S","t","r","e","e","t">>],
      [pat |-> <<"A","v","e">>, repl |-> <<"A","v","e","n","u","e">>],
      [pat |-> <<"R","d">>, repl |-> <<"R","o","a","d">>],
      [pat |-> <<"B","l","v","d">>, repl |-> <<"B","o","u","l","e","v","a","r","d">>],
      [pat |-> <<"D","r">>, repl |-> <<"D","r","i","v","e">>],
      [pat |-> <<"L","n">>, repl |-> <<"L","a","n","e">>],
      [pat |-> <<"C","t">>, repl |-> <<"C","o","u","r","t">>],
      [pat |-> <<"P","l">>, repl |-> <<"P","l","a","c","e">>],
      [pat |-> <<"T","e","r","r">>, repl |-> <<"T","e","r","r","a","c","e">>],
      [pat |-> <<"P","k","w","y">>, repl |-> <<"P","a","r","k","w","a","y">>],
      [pat |-> <<"H","w","y">>, repl |-> <<"H","i","g","h","w","a","y">>],
      [pat |-> <<"S","t","e">>, repl |-> <<"S","u","i","t","e">>],
      [pat |-> <<"F","l">>, repl |-> <<"F","l","o","o","r">>],
      [pat |-> <<"B","l","d","g">>, repl |-> <<"B","u","i","l","d","i","n","g">>],
      [pat |-> <<"A","p","t">>, repl |-> <<"A","p","a","r","t","m","e","n","t">>],
      [pat |-> <<"U","n","i","t">>, repl |-> <<"U","n","i","t">>],
      [pat |-> <<"#">>, repl |-> <<"U","n","i","t">>]
    >>

\* re.sub(r"[,.]", " ", s)
RECURSIVE ReSubPunct(_)
ReSubPunct(s) ==
    IF s = <<>> THEN <<>>
    ELSE <<IF Head(s) \in {",", "."} THEN " " ELSE Head(s)>> \o ReSubPunct(Tail(s))

\* The last index of the run of \w characters that starts at i.
RECURSIVE RunEnd(_, _)
RunEnd(s, i) == IF i < Len(s) /\ IsWordChar(s[i + 1]) THEN RunEnd(s, i + 1) ELSE i

\* s cut where \b holds and around every other character: the maximal runs
\* of \w characters and, one by one, the characters that are not \w.
RECURSIVE Pieces(_, _)
Pieces(s, i) ==
    IF i > Len(s) THEN <<>>
    ELSE LET j == IF IsWordChar(s[i]) THEN RunEnd(s, i) ELSE i
         IN  <<SubSeq(s, i, j)>> \o Pieces(s, j + 1)

RECURSIVE Concat(_)
Concat(ps) == IF ps = <<>> THEN <<>> ELSE Head(ps) \o Concat(Tail(ps))

\* Mutant of ReSubWord: the pattern lacks its trailing \b, so it also
\* matches the beginning of a longer word.
RECURSIVE ReSubWord_no_trailing_boundary(_, _, _)
ReSubWord_no_trailing_boundary(pat, repl, pieces) ==
    IF pieces = <<>> THEN <<>>
    ELSE LET piece == Head(pieces)
         IN  <<IF Len(piece) >= Len(pat)
                  /\ Lower(SubSeq(piece, 1, Len(pat))) = Lower(pat)
               THEN repl \o SubSeq(piece, Len(pat) + 1, Len(piece)) ELSE piece>>
                 \o ReSubWord_no_trailing_boundary(pat, repl, Tail(pieces))

\* re.sub(r"\b<pat>\b", repl, s, flags=re.IGNORECASE) for a pattern made of
\* \w characters, on the pieces of s: between two \b such a pattern can
\* only match a whole run of \w characters, compared case-insensitively.
\* The replacement is made of \w characters, so the pieces stay the pieces
\* of the resulting string.
RECURSIVE ReSubWord(_, _, _)
ReSubWord(pat, repl, pieces) ==
    IF pieces = <<>> THEN <<>>
    ELSE LET piece == Head(pieces)
         IN  <<IF Len(piece) = Len(pat) /\ Lower(piece) = Lower(pat) THEN repl ELSE piece>>
                 \o ReSubWord(pat, repl, Tail(pieces))

\* re.sub(r"\b#\b", repl, s): "#" is not a \w character, so \b holds on both
\* sides exactly when both neighbours exist and are \w characters.
ReSubHash(repl, s) ==
    LET Piece(i) ==
            IF /\ s[i] = "#"
               /\ i > 1 /\ IsWordChar(s[i - 1])
               /\ i < Len(s) /\ IsWordChar(s[i + 1])
            THEN repl ELSE <<s[i]>>
        RECURSIVE From(_)
        From(i) == IF i > Len(s) THEN <<>> ELSE Piece(i) \o From(i + 1)
    IN  From(1)

\* One re.sub of the loop over replacements.items(), on the pieces of the
\* string.
ReSubPattern(r, pieces) ==
    IF r.pat = <<"#">> THEN Pieces(ReSubHash(r.repl, Concat(pieces)), 1)
    ELSE ReSubWord(r.pat, r.repl, pieces)

\* for pattern, replacement in replacements.items(): cleaned_part = re.sub(...)
RECURSIVE ApplyReplacements(_, _)
ApplyReplacements(pieces, k) ==
    IF k > Len(replacements) THEN Concat(pieces)
    ELSE ApplyReplacements(ReSubPattern(replacements[k], pieces), k + 1)

\* re.sub(r"\s+", " ", s)
RECURSIVE CollapseSpaces(_)
CollapseSpaces(s) ==
    IF s = <<>> THEN <<>>
    ELSE IF IsSpace(Head(s))
         THEN <<" ">> \o CollapseSpaces(LStrip(s))
         ELSE <<Head(s)>> \o CollapseSpaces(Tail(s))

clean_and_normalize(part) ==
    IF Falsy(part) THEN <<>>
    ELSE LET cleaned_part == Strip(ReSubPunct(Str(part)))
         IN  Lower(CollapseSpaces(ApplyReplacements(Pieces(cleaned_part, 1), 1)))

(***************************************************************************)
(* format_address, is_valid_address and the key of clean_and_merge_data.   *)
(***************************************************************************)
\* ", ".join(parts)
RECURSIVE JoinComma(_)
JoinComma(parts) ==
    IF parts = <<>> THEN <<>>
    ELSE IF Len(parts) = 1 THEN Head(parts)
    ELSE Head(parts) \o <<",", " ">> \o JoinComma(Tail(parts))

\* [part for part in address_parts if part]
RECURSIVE Truthy(_)
Truthy(parts) ==
    IF parts = <<>> THEN <<>>
    ELSE IF Falsy(Head(parts)) THEN Truthy(Tail(parts))
    ELSE <<Head(parts)>> \o Truthy(Tail(parts))

\* format_address returns the pair (formatted_address, formatted_address).
format_address(address1, address2, city, state, zipcode) ==
    IF Falsy(address1) \/ Falsy(city) \/ Falsy(state) \/ Falsy(zipcode)
    THEN << <<>>, <<>> >>
    ELSE LET a1 == clean_and_normalize(address1)
             a2 == IF Falsy(address2) THEN None ELSE clean_and_normalize(address2)
             formatted_address ==
                 JoinComma(Truthy(<<a1, a2, clean_and_normalize(city), clean_and_normalize(state),
                                    clean_and_normalize(zipcode)>>))
         IN  <<formatted_address, formatted_address>>

\* is_valid_address raises IndexError at normalized_address[0] when the
\* argument is a non-empty str that strip() empties.
is_valid_address_raises(address) ==
    ~Falsy(address) /\ Strip(address) = <<>>

\* The value is_valid_address returns when it returns.
is_valid_address(address) ==
    IF Falsy(address) THEN FALSE
    ELSE LET normalized_address == Strip(address)
         IN  IF normalized_address[1] \notin Digits THEN FALSE
             ELSE IF normalized_address \in { <<"N","/","A">>,
                                              <<"U","n","k","n","o","w","n">>,
                                              <<"N","o","n","e">> } THEN FALSE
             ELSE TRUE

\* f"{city.replace(' ', '_')}_{state}".lower()
DeriveKey(city, state) == Lower(ReplaceChar(city, " ", "_") \o <<"_">> \o Str(state))

(***************************************************************************)
(* The literals of the verdict columns.                                    *)
(***************************************************************************)
NotFound == <<"N","o","t"," ","F","o","u","n","d">>
ManualResearch == <<"M","a","n","u","a","l"," ","R","e","s","e","a","r","c","h">>
HumanReviewNeeded == <<"H","u","m","a","n"," ","r","e","v","i","e","w"," ","n","e","e","d","e","d">>
NoMismatch == <<"N","o"," ","m","i","s","m","a","t","c","h">>
NoUpdateNeeded == <<"N","o"," ","u","p","d","a","t","e"," ","n","e","e","d","e","d">>
GovBankruptcyCourt == <<"G","o","v"," ","(","B","a","n","k","r","u","p","t","c","y"," ","C","o","u","r","t",")">>
GovDistrictCourt == <<"G","o","v"," ","(","D","i","s","t","r","i","c","t"," ","C","o","u","r","t",")">>
bankruptcy_court == <<"b","a","n","k","r","u","p","t","c","y"," ","c","o","u","r","t">>
district_court == <<"d","i","s","t","r","i","c","t"," ","c","o","u","r","t">>

\* f"Fed: {fed_address} | Gov: {gov_address}"
MismatchText(fed_address, gov_address) ==
    <<"F","e","d",":"," ">> \o fed_address \o <<" ","|"," ","G","o","v",":"," ">> \o gov_address

\* exclude_values and deduplicate_columns of main().
exclude_values ==
    { <<"A","p","p","e","a","l","s"," ","C","o","u","r","t">>,
      <<"F","e","d","e","r","a","l"," ","D","e","f","e","n","d","e","r","s">>,
      <<"P","r","o","b","a","t","i","o","n","/","P","r","e","t","r","i","a","l"," ","S","e","r","v","i","c","e","s">> }

DedupKey(g) ==
    <<g.Address, g.BuildingAddress, g.BuildingCity, g.BuildingName,
      g.BuildingState, g.BuildingZip>>

(***************************************************************************)
(* compare_data: candidate selection and the verdict.                      *)
(***************************************************************************)
\* Mutant of GovMatch: the filter on Key is missing.
RECURSIVE GovMatch_any_key(_, _, _)
GovMatch_any_key(gov, key, court_type) ==
    IF gov = <<>> THEN <<>>
    ELSE LET g == Head(gov)
             hit == g.CourtType # None /\ Lower(g.CourtType) = court_type
         IN  (IF hit THEN <<g>> ELSE <<>>) \o GovMatch_any_key(Tail(gov), key, court_type)

\* gov_matches[gov_matches['CourtType'].str.lower() == court_type], where
\* gov_matches = gov_data[gov_data['Key'] == key]: the rows in table order.
RECURSIVE GovMatch(_, _, _)
GovMatch(gov, key, court_type) ==
    IF gov = <<>> THEN <<>>
    ELSE LET g == Head(gov)
             hit == /\ g.Key = key
                    /\ g.CourtType # None
                    /\ Lower(g.CourtType) = court_type
         IN  (IF hit THEN <<g>> ELSE <<>>) \o GovMatch(Tail(gov), key, court_type)

\* Mutant of SelectCandidate: the district subset is tested first.
SelectCandidate_district_first(federal_row, gov) ==
    LET gov_match_bankruptcy == GovMatch(gov, federal_row.Key, bankruptcy_court)
        gov_match_district == GovMatch(gov, federal_row.Key, district_court)
    IN  IF gov_match_district # <<>>
        THEN [found |-> TRUE, gov_row |-> gov_match_district[1],
              matched_in |-> GovDistrictCourt]
        ELSE IF gov_match_bankruptcy # <<>>
        THEN [found |-> TRUE, gov_row |-> gov_match_bankruptcy[1],
              matched_in |-> GovBankruptcyCourt]
        ELSE [found |-> FALSE]

\* The candidate compare_data selects for a federal row and the Matched_in
\* text that goes with it; found = FALSE when neither subset has a row.
SelectCandidate(federal_row, gov) ==
    LET gov_match_bankruptcy == GovMatch(gov, federal_row.Key, bankruptcy_court)
        gov_match_district == GovMatch(gov, federal_row.Key, district_court)
    IN  IF gov_match_bankruptcy # <<>>
        THEN [found |-> TRUE, gov_row |-> gov_match_bankruptcy[1],
              matched_in |-> GovBankruptcyCourt]
        ELSE IF gov_match_district # <<>>
        THEN [found |-> TRUE, gov_row |-> gov_match_district[1],
              matched_in |-> GovDistrictCourt]
        ELSE [found |-> FALSE]

\* Mutant of Verdict: the is_valid_address test is missing.
Verdict_without_validity(federal_row, gov_row, matched_in) ==
    IF federal_row.Full_Address = gov_row.Full_Address
    THEN [federal_row EXCEPT !.Matched_in = matched_in,
                             !.Mismatch_Address = NoMismatch,
                             !.Address_to_update = NoUpdateNeeded]
    ELSE [federal_row EXCEPT !.Matched_in = matched_in,
                             !.Mismatch_Address =
                                 MismatchText(federal_row.Full_Address, gov_row.Full_Address),
                             !.Address_to_update = gov_row.Full_Address_With_BuildingName,
                             !.Phone_to_update = gov_row.Phone]

\* The four .loc assignments of either branch of the validity test.
Verdict(federal_row, gov_row, matched_in) ==
    IF is_valid_address(gov_row.BuildingAddress)
       /\ federal_row.Full_Address = gov_row.Full_Address
    THEN [federal_row EXCEPT !.Matched_in = matched_in,
                             !.Mismatch_Address = NoMismatch,
                             !.Address_to_update = NoUpdateNeeded]
    ELSE [federal_row EXCEPT !.Matched_in = matched_in,
                             !.Mismatch_Address =
                                 MismatchText(federal_row.Full_Address, gov_row.Full_Address),
                             !.Address_to_update = gov_row.Full_Address_With_BuildingName,
                             !.Phone_to_update = gov_row.Phone]

(***************************************************************************)
(* update_discrepancies: the split of Address_to_update and the UPDATE.    *)
(***************************************************************************)
\* s.split(','): the pieces between commas; "" splits into [""].
SplitComma(s) ==
    LET RECURSIVE From(_, _)
        From(i, start) ==
            IF i > Len(s) THEN <<SubSeq(s, start, Len(s))>>
            ELSE IF s[i] = "," THEN <<SubSeq(s, start, i - 1)>> \o From(i + 1, i + 1)
            ELSE From(i + 1, start)
    IN  From(1, 1)

RECURSIVE StripAll(_)
StripAll(parts) ==
    IF parts = <<>> THEN <<>> ELSE <<Strip(Head(parts))>> \o StripAll(Tail(parts))

\* [part.strip() for part in address_to_update.split(',')]
AddressParts(address_to_update) == StripAll(SplitComma(address_to_update))

\* ~Mismatch_Address.isin(['No mismatch', 'Manual Research'])
IsDiscrepancy(row) == row.Mismatch_Address \notin {NoMismatch, ManualResearch}

\* Mutant of EnoughParts: the second test is == 5 instead of >= 5.
EnoughParts_exactly_five(address_parts) == Len(address_parts) = 4 \/ Len(address_parts) = 5

\* len(address_parts) == 4 or len(address_parts) >= 5
EnoughParts(address_parts) == Len(address_parts) = 4 \/ Len(address_parts) >= 5

\* Mutant of UpdateParams: the branch for five or more parts reads the
\* city, state and zipcode one part too early.
UpdateParams_shifted(row) ==
    LET address_parts == AddressParts(row.Address_to_update)
    IN  [courtid |-> row.courtid, address1 |-> address_parts[1],
         address2 |-> IF Len(address_parts) = 4 THEN None ELSE address_parts[2],
         filingcity |-> address_parts[2], city |-> address_parts[2],
         state |-> address_parts[3], zipcode |-> address_parts[4],
         phone |-> row.Phone_to_update]

\* The parameters bound to the UPDATE statement of one row.
UpdateParams(row) ==
    LET address_parts == AddressParts(row.Address_to_update)
    IN  IF Len(address_parts) = 4
        THEN [courtid |-> row.courtid, address1 |-> address_parts[1], address2 |-> None,
              filingcity |-> address_parts[2], city |-> address_parts[2],
              state |-> address_parts[3], zipcode |-> address_parts[4],
              phone |-> row.Phone_to_update]
        ELSE [courtid |-> row.courtid, address1 |-> address_parts[1],
              address2 |-> address_parts[2],
              filingcity |-> address_parts[3], city |-> address_parts[3],
              state |-> address_parts[4], zipcode |-> address_parts[5],
              phone |-> row.Phone_to_update]

(***************************************************************************)
(* State.                                                                  *)
(***************************************************************************)
VARIABLES
    pc,             \* where main() is: merge, compare, compare_loop, update, ...
    federal_data,   \* the f_court rows (a DataFrame: a sequence of records)
    gov_data,       \* the government rows
    idx,            \* the row the running for-loop is at
    discrepancies,  \* update_discrepancies: the rows that passed the filter
    pending,        \* UPDATEs executed in the open database transaction
    durable,        \* UPDATEs of this batch that were committed
    reported,       \* courtids printed by "Skipping update for courtid ..."
    part,           \* an address component handed to clean_and_normalize
    normalized      \* clean_and_normalize applied to it once, then twice

vars == <<pc, federal_data, gov_data, idx, discrepancies, pending, durable,
          reported, part, normalized>>

batch_vars == <<pc, federal_data, gov_data, idx, discrepancies, pending,
                durable, reported>>

norm_vars == <<part, normalized>>

(***************************************************************************)
(* Bounds and input tables.                                                *)
(***************************************************************************)
\* Bounds: the rows of the federal and of the government table, the rows of
\* a comparison result handed directly to update_discrepancies, and the
\* tokens of an address component.
MaxFed == 1
MaxGov == 2
MaxResults == 2
MaxTokens == 3

Rye == <<"R","y","e">>
IL == <<"I","L">>
Zip == <<"6","2","7","0","1">>
OneASt == <<"1"," ","A"," ","S","t">>
OneAStreet == <<"1"," ","A"," ","S","t","r","e","e","t">>
Box5 == <<"B","o","x"," ","5">>

\* The input columns of f_court rows: a row that matches the government
\* address after normalisation, one without zipcode, one with an address
\* that does not start with a digit, one filed in another city.
FedInputs ==
    { [address1 |-> OneASt, city |-> Rye, state |-> IL, zipcode |-> Zip, filingcity |-> Rye],
      [address1 |-> OneASt, city |-> Rye, state |-> IL, zipcode |-> <<>>, filingcity |-> Rye],
      [address1 |-> Box5, city |-> Rye, state |-> IL, zipcode |-> Zip, filingcity |-> Rye],
      [address1 |-> OneASt, city |-> Rye, state |-> IL, zipcode |-> Zip,
       filingcity |-> <<"E","l","y">>] }

GovBase ==
    [Address |-> <<>>, BuildingAddress |-> OneAStreet, BuildingName |-> None,
     BuildingCity |-> Rye, BuildingState |-> IL, BuildingZip |-> Zip,
     CourtType |-> <<"B","a","n","k","r","u","p","t","c","y"," ","C","o","u","r","t">>]

\* The input columns of government rows: variations of one office in court
\* type (in several cases), BuildingAddress (blank, None, not starting with
\* a digit), BuildingName and BuildingZip.  The Address column only takes
\* part in drop_duplicates and is the same in every row.
GovInputs ==
    { GovBase,
      [GovBase EXCEPT !.CourtType = <<"d","i","s","t","r","i","c","t"," ","c","o","u","r","t">>],
      [GovBase EXCEPT !.BuildingAddress = <<" ">>],
      [GovBase EXCEPT !.BuildingAddress = None,
                      !.CourtType = <<"D","i","s","t","r","i","c","t"," ","C","o","u","r","t">>],
      [GovBase EXCEPT !.BuildingName = <<"A","n","n","e","x">>],
      [GovBase EXCEPT !.BuildingAddress = Box5,
                      !.CourtType = <<"D","i","s","t","r","i","c","t"," ","C","o","u","r","t">>],
      [GovBase EXCEPT !.BuildingZip = <<>>,
                      !.CourtType = <<"B","A","N","K","R","U","P","T","C","Y"," ","C","O","U","R","T">>],
      [GovBase EXCEPT !.CourtType = <<"A","p","p","e","a","l","s"," ","C","o","u","r","t">>],
      [GovBase EXCEPT !.CourtType = <<"T","a","x"," ","C","o","u","r","t">>] }

DigitChar == <<"1", "2", "3", "4", "5", "6", "7", "8", "9">>

\* A row of f_court as read by connect_to_database; the columns the program
\* adds later hold None until it assigns them.  courtid is the row number.
FedRow(i, in) ==
    [courtid |-> i, address1 |-> in.address1, city |-> in.city, state |-> in.state,
     zipcode |-> in.zipcode, filingcity |-> in.filingcity,
     Desc |-> None, Key |-> None, Full_Address |-> None, Matched_in |-> None,
     Mismatch_Address |-> None, Address_to_update |-> None, Phone_to_update |-> None]

\* A government row; each office has its own phone number.
GovRow(i, in) ==
    [Address |-> in.Address, BuildingAddress |-> in.BuildingAddress,
     BuildingName |-> in.BuildingName, BuildingCity |-> in.BuildingCity,
     BuildingState |-> in.BuildingState, BuildingZip |-> in.BuildingZip,
     CourtType |-> in.CourtType, Phone |-> <<"5","5","5","-", DigitChar[i]>>,
     Key |-> None, Full_Address |-> None, Full_Address_With_BuildingName |-> None]

\* gov_data[~gov_data['CourtType'].isin(exclude_values)]
RECURSIVE Exclude(_)
Exclude(gov) ==
    IF gov = <<>> THEN <<>>
    ELSE (IF Head(gov).CourtType \in exclude_values THEN <<>> ELSE <<Head(gov)>>)
             \o Exclude(Tail(gov))

\* gov_data.drop_duplicates(subset=deduplicate_columns): the first row of
\* each group of rows equal on the subset is kept.
RECURSIVE DropDuplicates(_, _)
DropDuplicates(gov, seen) ==
    IF gov = <<>> THEN <<>>
    ELSE IF DedupKey(Head(gov)) \in seen THEN DropDuplicates(Tail(gov), seen)
    ELSE <<Head(gov)>> \o DropDuplicates(Tail(gov), seen \cup {DedupKey(Head(gov))})

\* The tables main() works on.  Both have rows, and at least one government
\* row is of a court type that is kept: DataFrame.apply on a table without
\* rows is not part of this model.
FedTables ==
    UNION { { [i \in 1..n |-> FedRow(i, t[i])] : t \in [1..n -> FedInputs] } : n \in 1..MaxFed }

GovTables ==
    { gov \in UNION { { [i \in 1..n |-> GovRow(i, t[i])] : t \in [1..n -> GovInputs] } :
                          n \in 1..MaxGov } :
          Exclude(gov) # <<>> }

Init ==
    /\ pc = "merge"
    /\ federal_data \in FedTables
    /\ gov_data \in GovTables
    /\ idx = 0
    /\ discrepancies = <<>>
    /\ pending = <<>>
    /\ durable = <<>>
    /\ reported = <<>>
    /\ part = <<>>
    /\ normalized = <<>>

(***************************************************************************)
(* clean_and_merge_data.  The Excel files and the outer join merged_data   *)
(* are written and returned but read by no later step; they are left out.  *)
(***************************************************************************)
clean_and_merge_data ==
    /\ pc = "merge"
    /\ LET cleaned == DropDuplicates(Exclude(gov_data), {})
       IN  gov_data' = [i \in 1..Len(cleaned) |->
                           [cleaned[i] EXCEPT !.Key =
                               DeriveKey(cleaned[i].BuildingCity, cleaned[i].BuildingState)]]
    /\ federal_data' = [i \in 1..Len(federal_data) |->
           [federal_data[i] EXCEPT
               !.Desc = IF federal_data[i].filingcity # federal_data[i].city
                        THEN <<"B","r","a","n","c","h">> ELSE <<"M","a","i","n">>,
               !.Key = DeriveKey(federal_data[i].filingcity, federal_data[i].state)]]
    /\ pc' = "compare"
    /\ UNCHANGED <<idx, discrepancies, pending, durable, reported, norm_vars>>

(***************************************************************************)
(* compare_data.                                                           *)
(***************************************************************************)
\* Steps 1 to 3: the Full_Address columns and the initial verdict columns.
compare_prepare ==
    /\ pc = "compare"
    /\ federal_data' = [i \in 1..Len(federal_data) |->
           [federal_data[i] EXCEPT
               !.Full_Address = format_address(federal_data[i].address1, None,
                                    federal_data[i].city, federal_data[i].state,
                                    federal_data[i].zipcode)[1],
               !.Matched_in = NotFound,
               !.Mismatch_Address = ManualResearch,
               !.Address_to_update = HumanReviewNeeded,
               !.Phone_to_update = <<>>]]
    /\ gov_data' = [i \in 1..Len(gov_data) |->
           [gov_data[i] EXCEPT
               !.Full_Address = format_address(gov_data[i].BuildingAddress, None,
                                    gov_data[i].BuildingCity, gov_data[i].BuildingState,
                                    Prefix(Str(gov_data[i].BuildingZip), 5))[1],
               !.Full_Address_With_BuildingName =
                   format_address(gov_data[i].BuildingAddress, gov_data[i].BuildingName,
                                  gov_data[i].BuildingCity, gov_data[i].BuildingState,
                                  Prefix(Str(gov_data[i].BuildingZip), 5))[2]]]
    /\ idx' = 1
    /\ pc' = "compare_loop"
    /\ UNCHANGED <<discrepancies, pending, durable, reported, norm_vars>>

\* One iteration of the loop of Step 4 that runs to its end.
compare_row ==
    /\ pc = "compare_loop"
    /\ idx <= Len(federal_data)
    /\ LET c == SelectCandidate(federal_data[idx], gov_data)
       IN  IF c.found
           THEN /\ ~is_valid_address_raises(c.gov_row.BuildingAddress)
                /\ federal_data' = [federal_data EXCEPT
                       ![idx] = Verdict(federal_data[idx], c.gov_row, c.matched_in)]
           ELSE UNCHANGED federal_data
    /\ idx' = idx + 1
    /\ UNCHANGED <<pc, gov_data, discrepancies, pending, durable, reported, norm_vars>>

\* An iteration in which is_valid_address raises IndexError: nothing in
\* compare_data or main() catches it, so the run ends there.
compare_raise ==
    /\ pc = "compare_loop"
    /\ idx <= Len(federal_data)
    /\ LET c == SelectCandidate(federal_data[idx], gov_data)
       IN  c.found /\ is_valid_address_raises(c.gov_row.BuildingAddress)
    /\ pc' = "raised"
    /\ UNCHANGED <<federal_data, gov_data, idx, discrepancies, pending, durable,
                   reported, norm_vars>>

\* Step 5: the loop is over; result.xlsx is written and the table returned.
compare_return ==
    /\ pc = "compare_loop"
    /\ idx > Len(federal_data)
    /\ pc' = "update"
    /\ UNCHANGED <<federal_data, gov_data, idx, discrepancies, pending, durable,
                   reported, norm_vars>>

(***************************************************************************)
(* update_discrepancies.                                                   *)
(***************************************************************************)
RECURSIVE Discrepancies(_)
Discrepancies(rows) ==
    IF rows = <<>> THEN <<>>
    ELSE (IF IsDiscrepancy(Head(rows)) THEN <<Head(rows)>> ELSE <<>>)
             \o Discrepancies(Tail(rows))

\* The filter that opens the try block.
update_filter ==
    /\ pc = "update"
    /\ discrepancies' = Discrepancies(federal_data)
    /\ idx' = 1
    /\ pc' = "update_loop"
    /\ UNCHANGED <<federal_data, gov_data, pending, durable, reported, norm_vars>>

\* An iteration that takes the else branch: print and continue.
update_skip ==
    /\ pc = "update_loop"
    /\ idx <= Len(discrepancies)
    /\ ~EnoughParts(AddressParts(discrepancies[idx].Address_to_update))
    /\ reported' = Append(reported, discrepancies[idx].courtid)
    /\ idx' = idx + 1
    /\ UNCHANGED <<pc, federal_data, gov_data, discrepancies, pending, durable, norm_vars>>

\* Mutant of update_execute: the connection autocommits each statement.
update_execute_autocommit ==
    /\ pc = "update_loop"
    /\ idx <= Len(discrepancies)
    /\ EnoughParts(AddressParts(discrepancies[idx].Address_to_update))
    /\ durable' = Append(durable, UpdateParams(discrepancies[idx]))
    /\ idx' = idx + 1
    /\ UNCHANGED <<pc, federal_data, gov_data, discrepancies, pending, reported, norm_vars>>

\* An iteration whose connection.execute succeeds.
update_execute ==
    /\ pc = "update_loop"
    /\ idx <= Len(discrepancies)
    /\ EnoughParts(AddressParts(discrepancies[idx].Address_to_update))
    /\ pending' = Append(pending, UpdateParams(discrepancies[idx]))
    /\ idx' = idx + 1
    /\ UNCHANGED <<pc, federal_data, gov_data, discrepancies, durable, reported, norm_vars>>

\* An iteration whose connection.execute raises (the database refuses the
\* statement or the connection fails): control passes to the except block.
update_execute_fails ==
    /\ pc = "update_loop"
    /\ idx <= Len(discrepancies)
    /\ EnoughParts(AddressParts(discrepancies[idx].Address_to_update))
    /\ pc' = "except"
    /\ UNCHANGED <<federal_data, gov_data, idx, discrepancies, pending, durable,
                   reported, norm_vars>>

\* connection.commit() after the loop.
update_commit ==
    /\ pc = "update_loop"
    /\ idx > Len(discrepancies)
    /\ durable' = durable \o pending
    /\ pending' = <<>>
    /\ pc' = "committed"
    /\ UNCHANGED <<federal_data, gov_data, idx, discrepancies, reported, norm_vars>>

\* connection.commit() raises: nothing is made durable.
update_commit_fails ==
    /\ pc = "update_loop"
    /\ idx > Len(discrepancies)
    /\ pc' = "except"
    /\ UNCHANGED <<federal_data, gov_data, idx, discrepancies, pending, durable,
                   reported, norm_vars>>

\* The except block: connection.rollback().
update_rollback ==
    /\ pc = "except"
    /\ pending' = <<>>
    /\ pc' = "rolledback"
    /\ UNCHANGED <<federal_data, gov_data, idx, discrepancies, durable, reported, norm_vars>>

update_discrepancies ==
    \/ update_filter
    \/ update_skip
    \/ update_execute
    \/ update_execute_fails
    \/ update_commit
    \/ update_commit_fails
    \/ update_rollback

(***************************************************************************)
(* update_discrepancies on its own, for any comparison result.             *)
(***************************************************************************)
\* Values of Address_to_update: "", two parts, four parts with stray
\* blanks, five parts, six parts.
AddressTexts ==
    { <<>>,
      <<"r","y","e",","," ","i","l">>,
      <<" ","1"," ","A"," ","S","t"," ",",","R","y","e",","," "," ","I","L"," ",",","6","2","7","0","1">>,
      <<"1"," ","a"," ","s","t","r","e","e","t",","," ","a","n","n","e","x",","," ","r","y","e",","," ","i","l",","," ","6","2","7","0","1">>,
      <<"1",","," ","2",","," ","3",","," ","4",","," ","5",","," ","6">> }

MismatchTexts == {NoMismatch, ManualResearch, MismatchText(<<"x">>, <<"y">>)}

\* A row of a comparison result: courtid is the row number.
ResultRow(i, mismatch, address) ==
    [FedRow(i, [address1 |-> OneASt, city |-> Rye, state |-> IL, zipcode |-> Zip,
                filingcity |-> Rye])
        EXCEPT !.Mismatch_Address = mismatch,
               !.Address_to_update = address,
               !.Phone_to_update = <<"5","5","5","-", DigitChar[i]>>]

ResultTables ==
    UNION { { [i \in 1..n |-> ResultRow(i, t[i][1], t[i][2])] :
                  t \in [1..n -> MismatchTexts \X AddressTexts] } : n \in 0..MaxResults }

PlanInit ==
    /\ pc = "update"
    /\ federal_data \in ResultTables
    /\ gov_data = <<>>
    /\ idx = 0
    /\ discrepancies = <<>>
    /\ pending = <<>>
    /\ durable = <<>>
    /\ reported = <<>>
    /\ part = <<>>
    /\ normalized = <<>>

SpecPlan == PlanInit /\ [][update_discrepancies]_vars


compare_data ==
    \/ compare_prepare
    \/ compare_row
    \/ compare_raise
    \/ compare_return

\* main(): clean_and_merge_data, compare_data, update_discrepancies.
Next ==
    \/ clean_and_merge_data
    \/ compare_data
    \/ update_discrepancies

Spec == Init /\ [][Next]_vars

(***************************************************************************)
(* clean_and_normalize on its own, applied twice.                          *)
(***************************************************************************)
\* The tokens: abbreviations of the replacements table (in several cases),
\* their expansions, ordinary words, punctuation, "#" and whitespace.
Tokens ==
    { <<"S","t">>, <<"N">>, <<"E">>, <<"s">>, <<"U","n","i","t">>,
      <<"S","t","r","e","e","t">>, <<"M","a","i","n">>, <<"1">>,
      <<",">>, <<".">>, <<"#">>, <<" ">>, <<"\t">> }

TokenStrings == UNION { {Concat(ts) : ts \in [1..n -> Tokens]} : n \in 0..MaxTokens }

NormInit ==
    /\ pc = "normalize"
    /\ federal_data = <<>>
    /\ gov_data = <<>>
    /\ idx = 0
    /\ discrepancies = <<>>
    /\ pending = <<>>
    /\ durable = <<>>
    /\ reported = <<>>
    /\ part \in TokenStrings
    /\ normalized = <<>>

\* normalize(x), then normalize(normalize(x)).
Normalize ==
    /\ pc = "normalize"
    /\ Len(normalized) < 2
    /\ normalized' = Append(normalized,
            clean_and_normalize(IF normalized = <<>> THEN part
                                ELSE normalized[Len(normalized)]))
    /\ UNCHANGED <<part, batch_vars>>

NormNext == Normalize

SpecNorm == NormInit /\ [][NormNext]_vars
(***************************************************************************)
(* main() run again once the UPDATEs of earlier runs are in f_court.       *)
(***************************************************************************)
StLouis == <<"S","t"," ","L","o","u","i","s">>
MO == <<"M","O">>
NE == <<"N","E">>

\* f_court rows whose address differs from the government one, filed in
\* Rye IL, in St Louis MO and in Rye NE.
RerunFedInputs ==
    { [address1 |-> Box5, city |-> Rye, state |-> IL, zipcode |-> Zip, filingcity |-> Rye],
      [address1 |-> Box5, city |-> StLouis, state |-> MO, zipcode |-> Zip,
       filingcity |-> StLouis],
      [address1 |-> Box5, city |-> Rye, state |-> NE, zipcode |-> Zip, filingcity |-> Rye] }

\* Government rows: the office in Rye IL, an office in a city and one in a
\* state that the replacements table rewrites, a BuildingAddress that
\* normalises to "" beside a BuildingName, a blank BuildingAddress and a
\* row without BuildingZip.
RerunGovInputs ==
    { GovBase,
      [GovBase EXCEPT !.BuildingCity = StLouis, !.BuildingState = MO],
      [GovBase EXCEPT !.BuildingState = NE],
      [GovBase EXCEPT !.BuildingAddress = <<".">>,
                      !.BuildingName = <<"A","n","n","e","x">>,
                      !.CourtType = <<"D","i","s","t","r","i","c","t"," ","C","o","u","r","t">>],
      [GovBase EXCEPT !.BuildingAddress = <<" ">>, !.BuildingState = NE],
      [GovBase EXCEPT !.BuildingZip = <<>>, !.BuildingCity = StLouis, !.BuildingState = MO] }

RerunInit ==
    /\ pc = "merge"
    /\ federal_data \in UNION { { [i \in 1..n |-> FedRow(i, t[i])] :
                                      t \in [1..n -> RerunFedInputs] } : n \in 1..MaxFed }
    /\ gov_data \in UNION { { [i \in 1..n |-> GovRow(i, t[i])] :
                                  t \in [1..n -> RerunGovInputs] } : n \in 1..MaxGov }
    /\ idx = 0
    /\ discrepancies = <<>>
    /\ pending = <<>>
    /\ durable = <<>>
    /\ reported = <<>>
    /\ part = <<>>
    /\ normalized = <<>>

\* UPDATE f_court SET ... WHERE courtid = :courtid on one row.  The columns
\* address2 and phone are written too; no step of the program reads them.
ApplyUpdate(row, params) ==
    IF row.courtid = params.courtid
    THEN [row EXCEPT !.address1 = params.address1,
                     !.filingcity = params.filingcity,
                     !.city = params.city,
                     !.state = params.state,
                     !.zipcode = params.zipcode]
    ELSE row

\* The committed UPDATEs on one row, in the order of their execution.
RECURSIVE ApplyUpdates(_, _)
ApplyUpdates(row, updates) ==
    IF updates = <<>> THEN row
    ELSE ApplyUpdates(ApplyUpdate(row, Head(updates)), Tail(updates))

\* SELECT * FROM f_court after the committed UPDATEs: the columns of the
\* table, none of the columns the earlier run added to its DataFrame.
connect_to_database(rows, updates) ==
    [i \in 1..Len(rows) |-> FedRow(rows[i].courtid, ApplyUpdates(rows[i], updates))]

\* The government source answers with the same rows as before.  The rows
\* that clean_and_merge_data removed are removed again by the new run, so
\* the table is taken up from the rows it kept, their added columns unset.
search_gov_data(rows) ==
    [i \in 1..Len(rows) |->
        [rows[i] EXCEPT !.Key = None, !.Full_Address = None,
                        !.Full_Address_With_BuildingName = None]]

\* No record has been sent two UPDATEs.
UpdatedOnce(updates) ==
    \A j, k \in DOMAIN updates : j # k => updates[j].courtid # updates[k].courtid

\* main() started again after a run that committed.  durable keeps the
\* UPDATEs of the earlier runs; runs are repeated until some record is
\* updated a second time.
rerun_main ==
    /\ pc = "committed"
    /\ UpdatedOnce(durable)
    /\ federal_data' = connect_to_database(federal_data, durable)
    /\ gov_data' = search_gov_data(gov_data)
    /\ idx' = 0
    /\ discrepancies' = <<>>
    /\ reported' = <<>>
    /\ pc' = "merge"
    /\ UNCHANGED <<pending, durable, norm_vars>>

RerunNext ==
    \/ Next
    \/ rerun_main

SpecRerun == RerunInit /\ [][RerunNext]_vars


(***************************************************************************)
(* Properties.                                                             *)
(***************************************************************************)
\* compare_data has returned.
Compared == pc \in {"update", "update_loop", "except", "committed", "rolledback"}

\* The loop of compare_data has completed its iteration for row i.
Processed(i) == Compared \/ (pc \in {"compare_loop", "raised"} /\ i < idx)

Min(S) == CHOOSE x \in S : \A y \in S : x <= y

Range(seq) == {seq[k] : k \in DOMAIN seq}

Increasing(seq) == \A a, b \in DOMAIN seq : a < b => seq[a] < seq[b]

\* The government rows with the given Key and court type (lower-cased).
RowsOfType(key, court_type) ==
    {j \in DOMAIN gov_data : /\ gov_data[j].Key = key
                             /\ Lower(gov_data[j].CourtType) = court_type}

\* The verdict columns of row are those the rule gives for candidate g.
VerdictIs(row, g) ==
    IF is_valid_address(g.BuildingAddress) /\ row.Full_Address = g.Full_Address
    THEN /\ row.Mismatch_Address = NoMismatch
         /\ row.Address_to_update = NoUpdateNeeded
         /\ row.Phone_to_update = <<>>
    ELSE /\ row.Mismatch_Address = MismatchText(row.Full_Address, g.Full_Address)
         /\ row.Address_to_update = g.Full_Address_With_BuildingName
         /\ row.Phone_to_update = g.Phone

\* C1: a federal row whose Key is the Key of a bankruptcy-court row gets
\* Matched_in 'Gov (Bankruptcy Court)' and its verdict columns from the
\* first such row in table order, wherever district-court rows stand.
BankruptcyPrecedence ==
    \A i \in DOMAIN federal_data :
        Processed(i) =>
            LET B == RowsOfType(federal_data[i].Key, bankruptcy_court)
            IN  B # {} =>
                    /\ federal_data[i].Matched_in = GovBankruptcyCourt
                    /\ VerdictIs(federal_data[i], gov_data[Min(B)])

\* A district-court row stands before the bankruptcy-court row of the same
\* Key, and the verdict carries the bankruptcy row's phone.
BankruptcyAfterDistrictChosen ==
    \E i \in DOMAIN federal_data :
        /\ Processed(i)
        /\ \E j, k \in DOMAIN gov_data :
              /\ j < k
              /\ j \in RowsOfType(federal_data[i].Key, district_court)
              /\ k = Min(RowsOfType(federal_data[i].Key, bankruptcy_court))
              /\ federal_data[i].Matched_in = GovBankruptcyCourt
              /\ federal_data[i].Phone_to_update = gov_data[k].Phone

\* C2: with a selected candidate, the verdict is 'No mismatch' / 'No update
\* needed' exactly when the candidate's BuildingAddress is valid and the two
\* Full_Address strings are equal; otherwise it is the 'Fed: | Gov:' text,
\* the candidate's Full_Address_With_BuildingName and its Phone.
VerdictRule ==
    \A i \in DOMAIN federal_data :
        Processed(i) =>
            LET row == federal_data[i]
                c == SelectCandidate(row, gov_data)
            IN  c.found =>
                    LET same == /\ is_valid_address(c.gov_row.BuildingAddress)
                                /\ row.Full_Address = c.gov_row.Full_Address
                    IN  /\ same <=> /\ row.Mismatch_Address = NoMismatch
                                    /\ row.Address_to_update = NoUpdateNeeded
                        /\ ~same =>
                              /\ row.Mismatch_Address =
                                     MismatchText(row.Full_Address, c.gov_row.Full_Address)
                              /\ row.Address_to_update =
                                     c.gov_row.Full_Address_With_BuildingName
                              /\ row.Phone_to_update = c.gov_row.Phone

\* The two Full_Address strings are equal and non-empty but the candidate's
\* BuildingAddress is not valid: the verdict is a mismatch.
EqualButInvalidIsMismatch ==
    \E i \in DOMAIN federal_data :
        /\ Processed(i)
        /\ LET row == federal_data[i]
               c == SelectCandidate(row, gov_data)
           IN  /\ c.found
               /\ row.Full_Address # <<>>
               /\ row.Full_Address = c.gov_row.Full_Address
               /\ ~is_valid_address(c.gov_row.BuildingAddress)
               /\ row.Mismatch_Address = MismatchText(row.Full_Address, row.Full_Address)

\* C3: once compare_data has returned, a federal row with no bankruptcy- or
\* district-court row of its Key has Matched_in 'Not Found', Mismatch_Address
\* 'Manual Research' and an empty Phone_to_update; and whenever the verdict
\* columns exist, 'Not Found' implies 'Manual Research'.
NoMatchNotFound ==
    /\ Compared =>
          \A i \in DOMAIN federal_data :
              (RowsOfType(federal_data[i].Key, bankruptcy_court)
                   \cup RowsOfType(federal_data[i].Key, district_court) = {})
                  => /\ federal_data[i].Matched_in = NotFound
                     /\ federal_data[i].Mismatch_Address = ManualResearch
                     /\ federal_data[i].Phone_to_update = <<>>
    /\ pc \notin {"merge", "compare"} =>
          \A i \in DOMAIN federal_data :
              federal_data[i].Matched_in = NotFound
                  => federal_data[i].Mismatch_Address = ManualResearch

\* compare_data has returned 'Not Found' for a row although a government
\* row (of another court type) has its Key.
NotFoundBesideOtherCourt ==
    /\ Compared
    /\ \E i \in DOMAIN federal_data :
          /\ \E j \in DOMAIN gov_data : gov_data[j].Key = federal_data[i].Key
          /\ federal_data[i].Matched_in = NotFound
          /\ federal_data[i].Mismatch_Address = ManualResearch

\* C4: once compare_data has returned, every row whose Mismatch_Address is
\* neither 'No mismatch' nor 'Manual Research' has a non-empty
\* Address_to_update.
MismatchCarriesAddress ==
    Compared =>
        \A i \in DOMAIN federal_data :
            IsDiscrepancy(federal_data[i]) => federal_data[i].Address_to_update # <<>>

\* C5: a federal row for which format_address returned '' never gets the
\* verdict 'No mismatch'.
UnformattableNeverNoMismatch ==
    \A i \in DOMAIN federal_data :
        (Processed(i) /\ federal_data[i].Full_Address = <<>>)
            => federal_data[i].Mismatch_Address # NoMismatch

\* The number of pieces s.split(',') has: one more than the commas of s.
PartCount(s) == Cardinality({i \in DOMAIN s : s[i] = ","}) + 1

\* The gate of C6 on row number i of the comparison result.
PassesGate(i) ==
    /\ federal_data[i].Mismatch_Address # NoMismatch
    /\ federal_data[i].Mismatch_Address # ManualResearch
    /\ \/ PartCount(federal_data[i].Address_to_update) = 4
       \/ PartCount(federal_data[i].Address_to_update) >= 5

\* The gate fails on a row that passed the filter on Mismatch_Address.
FailsPartCount(i) ==
    /\ federal_data[i].Mismatch_Address # NoMismatch
    /\ federal_data[i].Mismatch_Address # ManualResearch
    /\ ~PassesGate(i)

CourtIds(instructions) == [k \in DOMAIN instructions |-> instructions[k].courtid]

MappedFrom(instruction) ==
    LET row == federal_data[instruction.courtid]
        parts == AddressParts(row.Address_to_update)
    IN  /\ instruction.phone = row.Phone_to_update
        /\ instruction.filingcity = instruction.city
        /\ instruction.address1 = parts[1]
        /\ IF Len(parts) = 4
           THEN /\ instruction.address2 = None
                /\ instruction.city = parts[2]
                /\ instruction.state = parts[3]
                /\ instruction.zipcode = parts[4]
           ELSE /\ Len(parts) >= 5
                /\ instruction.address2 = parts[2]
                /\ instruction.city = parts[3]
                /\ instruction.state = parts[4]
                /\ instruction.zipcode = parts[5]

\* C7: a 4-part Address_to_update gives (address1 = parts[0], no address2,
\* filingcity = city = parts[1], state = parts[2], zipcode = parts[3]), one
\* of 5 or more parts gives (parts[0], address2 = parts[1], filingcity = city
\* = parts[2], state = parts[3], zipcode = parts[4]); courtid and phone are
\* the row's; the parts are the trimmed pieces between commas.
FieldMapping ==
    /\ \A k \in DOMAIN pending : MappedFrom(pending[k])
    /\ \A k \in DOMAIN durable : MappedFrom(durable[k])
    /\ \A k \in DOMAIN pending :
          federal_data[pending[k].courtid].Address_to_update =
              <<" ","1"," ","A"," ","S","t"," ",",","R","y","e",","," "," ","I","L"," ",",","6","2","7","0","1">>
          => /\ pending[k].address1 = OneASt
             /\ pending[k].city = Rye
             /\ pending[k].state = IL
             /\ pending[k].zipcode = Zip

\* A committed batch with an UPDATE from a 4-part string and one from a
\* string of more than 5 parts.
FourAndSixPartsUpdated ==
    /\ pc = "committed"
    /\ \E a, b \in DOMAIN durable :
          /\ durable[a].address2 = None
          /\ PartCount(federal_data[durable[a].courtid].Address_to_update) = 4
          /\ durable[b].address2 # None
          /\ PartCount(federal_data[durable[b].courtid].Address_to_update) > 5

\* C8: the UPDATEs of a batch become durable all together, at the commit
\* that follows the last row, or not at all: before the commit and after a
\* failure nothing is durable, and a rollback leaves nothing applied.
AllOrNothing ==
    /\ pc # "committed" => durable = <<>>
    /\ pc = "committed" =>
          /\ pending = <<>>
          /\ idx > Len(discrepancies)
          /\ Len(durable) + Len(reported) = Len(discrepancies)
    /\ pc = "rolledback" => pending = <<>> /\ durable = <<>>

\* An UPDATE was executed, a later step failed, and the rollback is done.
RolledBackAfterExecute ==
    /\ pc = "rolledback"
    /\ \E k \in DOMAIN discrepancies :
          /\ k < idx
          /\ EnoughParts(AddressParts(discrepancies[k].Address_to_update))
    /\ durable = <<>>

\* C9: whatever the BuildingAddress values are, is_valid_address returns
\* without raising and compare_data reaches its end.
BatchAlwaysCompletes == pc # "raised"

\* C10: normalize(normalize(x)) = normalize(x).
NormalizerIdempotent == Len(normalized) = 2 => normalized[2] = normalized[1]

\* "St,E" was normalised twice; the first result is "street east".
AbbreviationsExpandedTwice ==
    /\ Len(normalized) = 2
    /\ part = <<"S","t",",","E">>
    /\ normalized[1] = <<"s","t","r","e","e","t"," ","e","a","s","t">>

\* C11: once an UPDATE for a record is in f_court, a new run over the same
\* government rows selects for that record the candidate the UPDATE came
\* from and finds 'No mismatch', and no record is sent a second UPDATE.
ConvergesAfterUpdate ==
    /\ (pc = "update" /\ durable # <<>>) =>
          \A k \in DOMAIN durable :
              LET row == federal_data[durable[k].courtid]
                  c == SelectCandidate(row, gov_data)
              IN  /\ c.found
                  /\ c.gov_row.Phone = durable[k].phone
                  /\ row.Mismatch_Address = NoMismatch
    /\ UpdatedOnce(durable \o pending)

====
